---- MODULE Spec2Model ----
(***************************************************************************)
(* A model of the DIBS IIIF pipeline of caltechlibrary/dibsiiif: the two   *)
(* variants of main(barcode), dibsiiif.py ("iiif") and dibsprep.py         *)
(* ("prep"), run as separate processes over one shared file system.        *)
(*                                                                         *)
(* Strings are sequences of one-character strings, so that the file-name   *)
(* handling (split, filter, isnumeric, int, stem, sort) is computed the    *)
(* way Python computes it.  A path is modelled by its file name: every     *)
(* path of one run has the same prefix barcode_dir + "/".                  *)
(*                                                                         *)
(* Spec: two invocations, each of either variant and for either of two     *)
(* barcodes, interleaved stage by stage; every external call (settings,    *)
(* file system, catalog, vips, put_object) may succeed or fail.            *)
(* SpecSeq: one invocation over every item directory of up to MaxFiles     *)
(* names of a catalogue of regular and irregular file names, scanned in    *)
(* every order.                                                            *)
(* SpecMeta: one invocation with every FOLIO and every TIND record of a    *)
(* set of records with and without the fields 008, 245 and 250.            *)
(***************************************************************************)
EXTENDS Integers, Sequences, FiniteSets, TLC

(***************************************************************************)
(* Bounds                                                                  *)
(***************************************************************************)
\* largest number of entries of an item directory in SpecSeq
MaxFiles == 3

(***************************************************************************)
(* Python string operations                                                *)
(***************************************************************************)
Digits == {"0", "1", "2", "3", "4", "5", "6", "7", "8", "9"}

\* ord(c) for the characters that occur in the modelled names
Code(c) ==
  CASE c = "." -> 46
    [] c = "0" -> 48 [] c = "1" -> 49 [] c = "2" -> 50 [] c = "3" -> 51
    [] c = "4" -> 52 [] c = "5" -> 53 [] c = "6" -> 54 [] c = "7" -> 55
    [] c = "8" -> 56 [] c = "9" -> 57
    [] c = "P" -> 80 [] c = "_" -> 95
    [] c = "a" -> 97 [] c = "b" -> 98 [] c = "e" -> 101 [] c = "f" -> 102
    [] c = "g" -> 103 [] c = "i" -> 105 [] c = "s" -> 115 [] c = "t" -> 116
    [] c = "u" -> 117 [] c = "x" -> 120

\* int(c) for a decimal digit
DigitVal(c) == Code(c) - 48

\* s[i:] with a 1-based first index
Drop(s, i) == SubSeq(s, i, Len(s))

\* s.find(c), 1-based; 0 when c does not occur
RECURSIVE FindFrom(_, _, _)
FindFrom(s, c, i) ==
  IF i > Len(s) THEN 0
  ELSE IF s[i] = c THEN i
  ELSE FindFrom(s, c, i + 1)

Find(s, c) == FindFrom(s, c, 1)

\* s.rfind(c), 1-based; 0 when c does not occur
RECURSIVE RFindFrom(_, _, _)
RFindFrom(s, c, i) ==
  IF i < 1 THEN 0
  ELSE IF s[i] = c THEN i
  ELSE RFindFrom(s, c, i - 1)

RFind(s, c) == RFindFrom(s, c, Len(s))

\* s.split(c): the list of the pieces between the occurrences of c
RECURSIVE Split(_, _)
Split(s, c) ==
  LET i == Find(s, c)
  IN  IF i = 0 THEN <<s>>
      ELSE <<SubSeq(s, 1, i - 1)>> \o Split(Drop(s, i + 1), c)

\* list(filter(None, parts)): the non-empty pieces
RECURSIVE FilterNone(_)
FilterNone(parts) ==
  IF parts = <<>> THEN <<>>
  ELSE IF Head(parts) = <<>> THEN FilterNone(Tail(parts))
  ELSE <<Head(parts)>> \o FilterNone(Tail(parts))

\* s.endswith(suffix)
EndsWith(s, suffix) ==
  /\ Len(s) >= Len(suffix)
  /\ SubSeq(s, Len(s) - Len(suffix) + 1, Len(s)) = suffix

\* s.isnumeric(): not empty and digits only
IsNumeric(s) ==
  /\ s # <<>>
  /\ \A i \in 1..Len(s) : s[i] \in Digits

\* int(s) for a numeric s
RECURSIVE IntOf(_)
IntOf(s) ==
  IF s = <<>> THEN 0
  ELSE 10 * IntOf(SubSeq(s, 1, Len(s) - 1)) + DigitVal(s[Len(s)])

\* Path(f).stem: the name without its last suffix
Stem(name) ==
  LET i == RFind(name, ".")
  IN  IF 1 < i /\ i < Len(name) THEN SubSeq(name, 1, i - 1) ELSE name

\* a < b for Python strings
RECURSIVE StrLess(_, _)
StrLess(a, b) ==
  IF b = <<>> THEN FALSE
  ELSE IF a = <<>> THEN TRUE
  ELSE IF Head(a) = Head(b) THEN StrLess(Tail(a), Tail(b))
  ELSE Code(Head(a)) < Code(Head(b))

\* list.sort() of a list of strings
RECURSIVE InsertStr(_, _)
InsertStr(x, sorted) ==
  IF sorted = <<>> THEN <<x>>
  ELSE IF StrLess(x, Head(sorted)) THEN <<x>> \o sorted
  ELSE <<Head(sorted)>> \o InsertStr(x, Tail(sorted))

RECURSIVE SortStr(_)
SortStr(l) ==
  IF l = <<>> THEN <<>>
  ELSE InsertStr(l[Len(l)], SortStr(SubSeq(l, 1, Len(l) - 1)))

\* list.sort() of a list of integers
RECURSIVE InsertInt(_, _)
InsertInt(x, sorted) ==
  IF sorted = <<>> THEN <<x>>
  ELSE IF x < Head(sorted) THEN <<x>> \o sorted
  ELSE <<Head(sorted)>> \o InsertInt(x, Tail(sorted))

RECURSIVE SortInt(_)
SortInt(l) ==
  IF l = <<>> THEN <<>>
  ELSE InsertInt(l[Len(l)], SortInt(SubSeq(l, 1, Len(l) - 1)))

\* x in l
InList(x, l) == \E i \in 1..Len(l) : l[i] = x

\* [x for x in range(lo, hi) if x not in l]
RECURSIVE RangeNotIn(_, _, _)
RangeNotIn(lo, hi, l) ==
  IF lo >= hi THEN <<>>
  ELSE (IF InList(lo, l) THEN <<>> ELSE <<lo>>) \o RangeNotIn(lo + 1, hi, l)

(***************************************************************************)
(* The file-name sequencer                                                 *)
(***************************************************************************)
\* i.name.endswith((".tif", ".tiff"))
IsTiffName(name) ==
  \/ EndsWith(name, <<".", "t", "i", "f">>)
  \/ EndsWith(name, <<".", "t", "i", "f", "f">>)

\* dibsiiif.py: list(filter(None, i.name.split(".")[0].split("_")))
IiifParts(name) == FilterNone(Split(Split(name, ".")[1], "_"))

\* dibsprep.py: i.name.split(".")[0].split("_")
PrepParts(name) == Split(Split(name, ".")[1], "_")

\* dibsprep.py: the two accepted conventions, {barcode}_{N} and {barcode}_Page_{N}
PrepAccepts(name, barcode) ==
  LET parts == PrepParts(name)
  IN  \/ /\ Len(parts) = 2
         /\ parts[1] = barcode
         /\ IsNumeric(parts[Len(parts)])
      \/ /\ Len(parts) = 3
         /\ parts[1] = barcode
         /\ IsNumeric(parts[Len(parts)])
         /\ parts[Len(parts) - 1] = <<"P", "a", "g", "e">>

\* dibsiiif.py: parts[0] raises IndexError when no part is left
IiifRaises(name) == IiifParts(name) = <<>>

\* dibsiiif.py without the isnumeric() test of the last part
IiifAcceptsAnySuffix(name, barcode) ==
  LET parts == IiifParts(name)
  IN  /\ parts # <<>>
      /\ parts[1] = barcode

\* dibsiiif.py: neither of the two "continue" branches is taken
IiifAccepts(name, barcode) ==
  LET parts == IiifParts(name)
  IN  /\ parts # <<>>
      /\ parts[1] = barcode
      /\ IsNumeric(parts[Len(parts)])

\* the state of the scandir loop: the two lists, the loop variable i (which
\* only dibsprep.py reads after the loop) and whether an exception left the loop
ScanStart == [tiff_paths |-> <<>>, sequence |-> <<>>, i |-> <<>>, raised |-> FALSE]

\* one iteration of the loop of dibsiiif.py over the entry `name`
IiifScanEntry(st, name, isfile, barcode) ==
  IF st.raised THEN st
  ELSE IF ~(isfile /\ IsTiffName(name)) THEN [st EXCEPT !.i = name]
  ELSE IF IiifRaises(name) THEN [st EXCEPT !.i = name, !.raised = TRUE]
  ELSE IF ~IiifAccepts(name, barcode) THEN [st EXCEPT !.i = name]
  ELSE [st EXCEPT !.i = name,
                  !.tiff_paths = Append(@, name),
                  !.sequence = Append(@, IntOf(IiifParts(name)[Len(IiifParts(name))]))]

\* one iteration of the loop of dibsprep.py over the entry `name`
PrepScanEntry(st, name, isfile, barcode) ==
  IF ~(isfile /\ IsTiffName(name)) THEN [st EXCEPT !.i = name]
  ELSE IF ~PrepAccepts(name, barcode) THEN [st EXCEPT !.i = name]
  ELSE [st EXCEPT !.i = name,
                  !.tiff_paths = Append(@, name),
                  !.sequence = Append(@, IntOf(PrepParts(name)[Len(PrepParts(name))]))]

\* the whole loop over the entries in the order os.scandir yields them
RECURSIVE ScanLoop(_, _, _, _, _)
ScanLoop(variant, st, order, subdirs, barcode) ==
  IF order = <<>> THEN st
  ELSE LET name == Head(order)
           isfile == name \notin subdirs
           nxt == IF variant = "iiif"
                  THEN IiifScanEntry(st, name, isfile, barcode)
                  ELSE PrepScanEntry(st, name, isfile, barcode)
       IN  ScanLoop(variant, nxt, Tail(order), subdirs, barcode)

\* missing_numbers(sequence): the list is sorted in place, then the numbers of
\* range(sequence[0], sequence[-1] + 1) that are not in it are returned
SortedInPlace(sequence) == SortInt(sequence)

\* a gap check that never reports a missing number
missing_numbers_none(sequence) == <<>>

\* missing_numbers without sequence.sort(): the range runs from the first to
\* the last number in scan order
missing_numbers_unsorted(sequence) ==
  RangeNotIn(sequence[1], sequence[Len(sequence)] + 1, sequence)

missing_numbers(sequence) ==
  LET s == SortedInPlace(sequence)
  IN  RangeNotIn(s[1], s[Len(s)] + 1, s)

\* page_num = f.stem.split('_')[-1]
PageNum(name) ==
  LET parts == Split(Stem(name), "_")
  IN  parts[Len(parts)]

(***************************************************************************)
(* Barcodes, file names and item directories                               *)
(***************************************************************************)
BarcodeA == <<"7">>
BarcodeB == <<"8">>
Barcodes == {BarcodeA, BarcodeB}

\* dibsiiif.py and dibsprep.py
Variants == {"iiif", "prep"}

\* the invocations: two processes that may run at the same time
Runs == {1, 2}

Tif == <<".", "t", "i", "f">>
Tiff == <<".", "t", "i", "f", "f">>
Txt == <<".", "t", "x", "t">>
Us == <<"_">>
Page == <<"P", "a", "g", "e">>

\* {barcode}_{N}.tif and {barcode}_Page_{N}.tiff
Plain(b, n) == b \o Us \o n \o Tif
Paged(b, n) == b \o Us \o Page \o Us \o n \o Tiff

\* entries that are sub-directories (is_file() is false)
SubDirs == {<<"s", "u", "b">>}

\* the names an item directory of barcode b is filled from in SpecSeq
Catalogue(b) ==
  { Plain(b, <<"1">>), Plain(b, <<"2">>), Plain(b, <<"3">>),
    Paged(b, <<"1">>),
    Plain(b, <<"0", "3">>),
    b \o Tif,
    b \o Us \o <<"x">> \o Us \o <<"2">> \o Tif,
    b \o Us \o <<"x">> \o Us \o <<"x">> \o Us \o <<"3">> \o Tif,
    b \o Us \o Us \o <<"2">> \o Tif,
    b \o Us \o <<"1">> \o Us \o Tif,
    Us \o Tif,
    Tif,
    <<"9">> \o Us \o <<"1">> \o Tif,
    b \o Us \o <<"x">> \o Tif,
    b \o Us \o <<"1">> \o Txt,
    b \o Us \o <<"1">> \o <<".", "x">> \o Tif,
    <<"s", "u", "b">> }

NoDir == [exists |-> FALSE, entries |-> {}]
DirOf(entries) == [exists |-> TRUE, entries |-> entries]

\* a file name that does not depend on the barcode
Notes == <<"x">> \o Txt

\* the item directories of Spec: absent, empty, complete, with a gap, with
\* one page and the notes file
SmallDirs(b) ==
  { NoDir,
    DirOf({}),
    DirOf({Plain(b, <<"1">>), Plain(b, <<"2">>)}),
    DirOf({Plain(b, <<"1">>), Plain(b, <<"3">>)}),
    DirOf({Plain(b, <<"1">>), Notes}) }

\* the item directories of SpecSeq: absent, or up to MaxFiles catalogue names
SeqDirs(b) ==
  {NoDir} \cup
  { DirOf(e) : e \in {x \in SUBSET Catalogue(b) : Cardinality(x) <= MaxFiles} }

\* the orders in which os.scandir can yield the entries
Perms(S) ==
  { f \in [1..Cardinality(S) -> S] :
      \A i, j \in 1..Cardinality(S) : i # j => f[i] # f[j] }

(***************************************************************************)
(* The catalog record and the metadata read from it                        *)
(***************************************************************************)
\* s[k:] and s[:k] of Python for an index k counted from 0; a negative k of
\* s[:k] counts from the end
SliceFrom(s, k) == SubSeq(s, k + 1, Len(s))
SliceTo(s, k) ==
  IF k >= 0 THEN SubSeq(s, 1, IF k < Len(s) THEN k ELSE Len(s))
  ELSE SubSeq(s, 1, IF Len(s) + k > 0 THEN Len(s) + k ELSE 0)
Slice(s, j, k) == SliceFrom(SliceTo(s, k), j)

\* s.find(sub) of Python: the first index, counted from 0, or -1
RECURSIVE FindSubFrom(_, _, _)
FindSubFrom(s, sub, k) ==
  IF k + Len(sub) > Len(s) THEN -1
  ELSE IF SubSeq(s, k + 1, k + Len(sub)) = sub THEN k
  ELSE FindSubFrom(s, sub, k + 1)

FindSub(s, sub) == FindSubFrom(s, sub, 0)

\* sub in s
Contains(s, sub) == FindSub(s, sub) >= 0

\* s.strip(chars)
RECURSIVE LStrip(_, _)
LStrip(s, chars) ==
  IF s # <<>> /\ s[1] \in chars THEN LStrip(Tail(s), chars) ELSE s

RECURSIVE RStrip(_, _)
RStrip(s, chars) ==
  IF s # <<>> /\ s[Len(s)] \in chars
  THEN RStrip(SubSeq(s, 1, Len(s) - 1), chars)
  ELSE s

Strip(s, chars) == RStrip(LStrip(s, chars), chars)

\* the characters of strip(" /:;,.")
Punctuation == {" ", "/", ":", ";", ",", "."}

SubA == <<"$", "a", " ">>
SubB == <<"$", "b", " ">>
SubC == <<"$", "c", " ">>

\* the locals title, subtitle, author, edition, year; error is the exception
\* raised in the try block, "none" when it ends normally
NoMeta ==
  [ title |-> <<>>, subtitle |-> <<>>, author |-> <<>>, edition |-> <<>>,
    year |-> <<>>, error |-> "none" ]

\* dibsiiif.py, the body of the loop over the fields of the instance record.
\* A field is [tag, content, Date1]: content is the string of a 245 or 250
\* field, Date1 the "Date1" entry of the content of an 008 field (<<>> when
\* the key is missing or its value is empty).
FolioField(m, field) ==
  LET c == field.content
      m1 == IF field.tag = "008" /\ field.Date1 # <<>>
            THEN [m EXCEPT !.year = field.Date1]
            ELSE m
      c_pos == FindSub(c, SubC)
      b_pos == FindSub(c, SubB)
      title1 == IF Contains(c, SubC)
                THEN Strip(Slice(c, 3, c_pos), Punctuation)
                ELSE Strip(SliceFrom(c, 3), Punctuation)
      title2 == IF Contains(c, SubB)
                THEN SliceTo(title1, b_pos - 3) \o SliceFrom(title1, b_pos)
                ELSE title1
      m2 == IF field.tag = "245"
            THEN IF ~Contains(c, SubA)
                 THEN [m1 EXCEPT !.error = "no title found"]
                 ELSE [m1 EXCEPT
                         !.author = IF Contains(c, SubC)
                                    THEN Strip(SliceFrom(c, c_pos + 3), Punctuation)
                                    ELSE @,
                         !.title = title2]
            ELSE m1
  IN  IF m2.error = "none" /\ field.tag = "250"
      THEN [m2 EXCEPT !.edition = Strip(SliceFrom(c, 3), Punctuation)]
      ELSE m2

\* the loop: an exception ends it
RECURSIVE FolioLoop(_, _, _)
FolioLoop(fields, k, m) ==
  IF k > Len(fields) \/ m.error # "none" THEN m
  ELSE FolioLoop(fields, k + 1, FolioField(m, fields[k]))

\* dibsiiif.py, from the instance response to the locals
FolioMetadata(fields) ==
  IF fields = <<>>
  THEN [NoMeta EXCEPT !.error = "no fields found"]
  ELSE FolioLoop(fields, 1, NoMeta)

\* A MARC XML record is a sequence of elements [tag, text, subfields]: a
\* controlfield has a text and no subfields, a datafield has subfields
\* [code, text].
\* soup.select("[tag='T'] > [code='C']"): the texts of the matching subfields
\* in document order
RECURSIVE SelectSub(_, _, _)
SelectSub(rec, tag, code) ==
  IF rec = <<>> THEN <<>>
  ELSE LET e == Head(rec)
           IsCode(sf) == sf.code = code
           hits == IF e.tag = tag
                   THEN [k \in 1..Len(SelectSeq(e.subfields, IsCode)) |->
                           SelectSeq(e.subfields, IsCode)[k].text]
                   ELSE <<>>
       IN  hits \o SelectSub(Tail(rec), tag, code)

\* get_text() of an element: its text followed by the texts of its children
RECURSIVE JoinTexts(_)
JoinTexts(sfs) ==
  IF sfs = <<>> THEN <<>> ELSE Head(sfs).text \o JoinTexts(Tail(sfs))

GetText(e) == e.text \o JoinTexts(e.subfields)

\* soup.select("[tag='T']")
SelectTag(rec, tag) ==
  LET IsTag(e) == e.tag = tag
  IN  SelectSeq(rec, IsTag)

\* dibsprep.py, from the parsed record to the locals; tag008[0] raises
\* IndexError when nothing is selected
TindMetadata(rec) ==
  LET tag245a == SelectSub(rec, "245", "a")
      tag245b == SelectSub(rec, "245", "b")
      tag245c == SelectSub(rec, "245", "c")
      tag250a == SelectSub(rec, "250", "a")
      tag008 == SelectTag(rec, "008")
  IN  IF tag245a = <<>>
      THEN [NoMeta EXCEPT !.error = "title tag was empty"]
      ELSE IF tag008 = <<>>
      THEN [NoMeta EXCEPT !.error = "IndexError"]
      ELSE [ title |-> Strip(tag245a[1], Punctuation),
             subtitle |-> IF tag245b # <<>>
                          THEN <<":", " ">> \o Strip(tag245b[1], Punctuation)
                          ELSE <<>>,
             author |-> IF tag245c # <<>>
                        THEN Strip(tag245c[1], Punctuation)
                        ELSE <<>>,
             edition |-> IF tag250a # <<>> THEN tag250a[1] ELSE <<>>,
             year |-> Slice(GetText(tag008[1]), 7, 11),
             error |-> "none" ]

\* the metadata stage of a variant on the record of the barcode; `fetched`
\* is false when a request or a lookup before the record fails
ReadMetadata(variant, rec, fetched) ==
  IF ~fetched THEN [NoMeta EXCEPT !.error = "request failed"]
  ELSE IF variant = "iiif" THEN FolioMetadata(rec.folio)
  ELSE TindMetadata(rec.tind)

\* a {"label": ..., "value": ...} of manifest["metadata"]
Entry(label, value) == [label |-> label, value |-> value]

\* the entry appended whatever the value
AlwaysEntry(label, value) == <<Entry(label, value)>>

\* if value: manifest["metadata"].append(...)
OptionalEntry(label, value) ==
  IF value # <<>> THEN <<Entry(label, value)>> ELSE <<>>

\* the value of the Title entry: f"{title}" and f"{title}{subtitle}"
TitleValue(variant, m) ==
  IF variant = "prep" THEN m.title \o m.subtitle ELSE m.title

\* manifest["label"] and manifest["metadata"]
ManifestLabel(m) == m.title

ManifestMetadata(variant, m) ==
  <<Entry("Title", TitleValue(variant, m))>>
    \o OptionalEntry("Author", m.author)
    \o OptionalEntry("Edition", m.edition)
    \o <<Entry("Year", m.year)>>

\* texts of the catalog records
MainTitle == <<"M", "a", "i", "n", " ", "T", "i", "t", "l", "e">>
ASubtitle == <<"A", " ", "S", "u", "b", "t", "i", "t", "l", "e">>
AuthorName == <<"A", "u", "t", "h", "o", "r", " ", "N", "a", "m", "e">>
SecondEd == <<"2", "n", "d", " ", "e", "d">>
Date1985 == <<"1", "9", "8", "5">>

\* a field of a FOLIO record
Field(tag, content) == [tag |-> tag, content |-> content, Date1 |-> <<>>]
Field008(date1) == [tag |-> "008", content |-> <<>>, Date1 |-> date1]

\* the 245 contents of the FOLIO records: title only, with author, with
\* subtitle and author ("$a T / $b S / $c A"), with subtitle after " : ",
\* and without "$a "
Folio245 ==
  { SubA \o MainTitle \o <<".">>,
    SubA \o MainTitle \o <<" ", "/", " ">> \o SubC \o AuthorName \o <<".">>,
    SubA \o MainTitle \o <<" ", "/", " ">> \o SubB \o ASubtitle \o <<" ", "/", " ">> \o SubC \o AuthorName,
    SubA \o MainTitle \o <<" ", ":", " ">> \o SubB \o ASubtitle \o <<".">>,
    SubC \o AuthorName }

\* zero or one element of S, as sequences
Optional(S) == {<<>>} \cup {<<x>> : x \in S}

\* the FOLIO records: an 008 with, or without, Date1, or none; one of the
\* 245 fields, or none; a 250 field, or none
FolioRecords ==
  { f008 \o f245 \o f250 :
      f008 \in Optional({Field008(Date1985), Field008(<<>>)}),
      f245 \in Optional({Field("245", c) : c \in Folio245}),
      f250 \in Optional({Field("250", SubA \o SecondEd \o <<".">>)}) }

\* an element of a MARC XML record
ControlField(tag, text) == [tag |-> tag, text |-> text, subfields |-> <<>>]
DataField(tag, subfields) == [tag |-> tag, text |-> <<>>, subfields |-> subfields]
SubField(code, text) == [code |-> code, text |-> text]

\* the 245 fields of the TIND records
Tind245 ==
  LET a == SubField("a", MainTitle \o <<" ", ":">>)
      b == SubField("b", ASubtitle \o <<" ", "/">>)
      c == SubField("c", AuthorName \o <<".">>)
  IN  { DataField("245", sfs) : sfs \in {<<a>>, <<a, b>>, <<a, c>>, <<a, b, c>>, <<c>>} }

\* the TIND records: an 008 or none, one of the 245 fields or none, a 250
\* field or none
TindRecords ==
  { f008 \o f245 \o f250 :
      f008 \in Optional({ControlField("008", <<"8", "5", "0", "4", "2", "3", "s", "1", "9", "8", "5", " ", " ", " ", " ", "n", "y", "u">>)}),
      f245 \in Optional(Tind245),
      f250 \in Optional({DataField("250", <<SubField("a", SecondEd \o <<".">>)>>)}) }

\* a complete record in each catalog
FullFolio ==
  << Field008(Date1985),
     Field("245", SubA \o MainTitle \o <<" ", ":", " ">> \o SubB \o ASubtitle \o <<" ", "/", " ">> \o SubC \o AuthorName \o <<".">>) >>
FullTind ==
  << ControlField("008", <<"8", "5", "0", "4", "2", "3", "s", "1", "9", "8", "5", " ", " ", " ", " ", "n", "y", "u">>),
     DataField("245", << SubField("a", MainTitle \o <<" ", ":">>),
                         SubField("b", ASubtitle \o <<" ", "/">>),
                         SubField("c", AuthorName \o <<".">>) >>) >>
FullRecord == [folio |-> FullFolio, tind |-> FullTind]

\* the records of SpecMeta: every FOLIO record and every TIND record
MetaRecords ==
  {[folio |-> f, tind |-> FullTind] : f \in FolioRecords}
    \cup {[folio |-> FullFolio, tind |-> t] : t \in TindRecords}

(***************************************************************************)
(* State                                                                   *)
(***************************************************************************)
VARIABLES
  run,             \* the invocations of main: locals and position of each
  initiated,       \* barcodes with STATUS_FILES_DIR/{barcode}-initiated
  processing,      \* barcodes with STATUS_FILES_DIR/{barcode}-processing
  problem,         \* barcodes with STATUS_FILES_DIR/{barcode}-problem
  unprocessed,     \* UNPROCESSED_SCANS_DIR/{barcode}
  processed,       \* PROCESSED_SCANS_DIR/{barcode}
  stray,           \* other entries of PROCESSED_SCANS_DIR
  iiif_dir,        \* PROCESSED_IIIF_DIR/{barcode}: the converted page files
  s3,              \* the keys of the bucket, <<barcode, page_num>>
  manifest_files,  \* the manifest files written, by variant and barcode
  catalog          \* the record the catalogs return for each barcode

vars == <<run, initiated, processing, problem, unprocessed, processed, stray,
          iiif_dir, s3, manifest_files, catalog>>

status_files == <<initiated, processing, problem>>
scan_dirs == <<unprocessed, processed, stray>>
\* the outputs; the catalog is only read
outputs == <<iiif_dir, s3, manifest_files, catalog>>

NoManifest ==
  [written |-> FALSE, label |-> <<>>, metadata |-> <<>>, canvases |-> <<>>]

IdleRun ==
  [ variant |-> "none", barcode |-> <<>>, pc |-> "idle",
    listing |-> {}, tiff_paths |-> <<>>, sequence |-> <<>>, i |-> <<>>,
    missing |-> <<>>, meta |-> NoMeta, label |-> <<>>, metadata |-> <<>>,
    n |-> 0, canvases |-> <<>>,
    converted |-> {}, outcomes |-> {}, manifest_written |-> FALSE,
    created |-> FALSE, wrote_problem |-> FALSE, moved |-> "nothing",
    item_done |-> FALSE, problem_at_start |-> FALSE,
    stage |-> "none", exit |-> 0 ]

InitWith(dirsA, dirsB, marked, records) ==
  /\ run = [r \in Runs |-> IdleRun]
  /\ \E a \in dirsA, b \in dirsB :
       unprocessed = [x \in Barcodes |-> IF x = BarcodeA THEN a ELSE b]
  /\ initiated \in SUBSET marked
  /\ processing = {}
  /\ problem = {}
  /\ processed = [x \in Barcodes |-> NoDir]
  /\ stray = {}
  /\ iiif_dir = [x \in Barcodes |-> NoDir]
  /\ s3 = {}
  /\ manifest_files = [v \in Variants |-> [x \in Barcodes |-> NoManifest]]
  /\ \E rec \in records :
       catalog = [x \in Barcodes |-> IF x = BarcodeA THEN rec ELSE FullRecord]

Init == InitWith(SmallDirs(BarcodeA), SmallDirs(BarcodeB), Barcodes, {FullRecord})

InitSeq == InitWith(SeqDirs(BarcodeA), {NoDir}, {BarcodeA}, {FullRecord})

\* the item directories of SpecMeta: absent, one page, two pages
MetaDirs(b) ==
  {NoDir, DirOf({Plain(b, <<"1">>)}), DirOf({Plain(b, <<"1">>), Plain(b, <<"2">>)})}

InitMeta == InitWith(MetaDirs(BarcodeA), {NoDir}, {BarcodeA}, MetaRecords)

(***************************************************************************)
(* main(barcode), stage by stage                                           *)
(***************************************************************************)
\* the run goes on with the stage `pc`
Goto(rr, pc) == [rr EXCEPT !.pc = pc]

\* an exception propagates out of main: the process exits non-zero
Raised(rr, stage, wrote) ==
  [rr EXCEPT !.pc = "done", !.stage = stage, !.exit = 1,
             !.wrote_problem = @ \/ wrote]

\* the handler of dibsiiif.py and dibsprep.py: open({barcode}-problem, "w"),
\* traceback.print_exc(file=f), raise
WithProblemMarker(r, stage) ==
  /\ run' = [run EXCEPT ![r] = Raised(@, stage, TRUE)]
  /\ problem' = problem \cup {run[r].barcode}

\* a stage without handler: the exception leaves main at once
WithoutHandler(r, stage) ==
  /\ run' = [run EXCEPT ![r] = Raised(@, stage, FALSE)]
  /\ problem' = problem

\* the state a successful dibsiiif.py run leaves the item in: the directory
\* moved to PROCESSED_SCANS_DIR and the processing marker removed
ItemDone(b) ==
  /\ ~unprocessed[b].exists
  /\ processed[b].exists
  /\ b \notin processing

\* plac.call(main): one invocation with a barcode; item_done notes whether
\* the item was done when the invocation started, problem_at_start whether
\* its problem marker was present
Invoke(r, barcodes) ==
  /\ run[r].pc = "idle"
  /\ \E v \in Variants, b \in barcodes :
       run' = [run EXCEPT ![r] = [@ EXCEPT !.variant = v, !.barcode = b,
                                           !.item_done = ItemDone(b),
                                           !.problem_at_start = b \in problem,
                                           !.pc = "settings"]]
  /\ UNCHANGED <<status_files, scan_dirs, outputs>>

\* validate_settings(); a failure is re-raised and no marker is written
ValidateSettings(r) ==
  /\ run[r].pc = "settings"
  /\ \E ok \in BOOLEAN :
       IF ok
       THEN run' = [run EXCEPT ![r] =
                      Goto(@, IF @.variant = "iiif" THEN "processing" ELSE "initiated")]
       ELSE run' = [run EXCEPT ![r] = Raised(@, "settings", FALSE)]
  /\ UNCHANGED <<status_files, scan_dirs, outputs>>

\* touch(exist_ok=True): an existing file is no error
TouchExistOk(ok, exists) == ok

\* touch(exist_ok=False) creates the file with O_CREAT | O_EXCL
TouchSucceeds(ok, exists) == ok /\ ~exists

\* create STATUS_FILES_DIR/{barcode}-processing
CreateProcessing(r) ==
  /\ run[r].pc = "processing"
  /\ \E ok \in BOOLEAN :
       IF TouchSucceeds(ok, run[r].barcode \in processing)
       THEN /\ processing' = processing \cup {run[r].barcode}
            /\ run' = [run EXCEPT ![r] =
                         [@ EXCEPT !.created = TRUE,
                                   !.pc = IF run[r].variant = "iiif"
                                          THEN "initiated"
                                          ELSE "validate_dir"]]
            /\ problem' = problem
       ELSE /\ WithProblemMarker(r, "processing")
            /\ processing' = processing
  /\ UNCHANGED <<initiated, scan_dirs, outputs>>

\* dibsiiif.py: unlink(missing_ok=True); dibsprep.py: unlink()
UnlinkInitiatedSucceeds(variant, ok, exists) ==
  IF variant = "iiif" THEN ok ELSE ok /\ exists

\* remove STATUS_FILES_DIR/{barcode}-initiated
RemoveInitiated(r) ==
  /\ run[r].pc = "initiated"
  /\ \E ok \in BOOLEAN :
       IF UnlinkInitiatedSucceeds(run[r].variant, ok, run[r].barcode \in initiated)
       THEN /\ initiated' = initiated \ {run[r].barcode}
            /\ run' = [run EXCEPT ![r] =
                         Goto(@, IF @.variant = "iiif" THEN "validate_dir"
                                 ELSE "processing")]
            /\ problem' = problem
       ELSE /\ WithProblemMarker(r, "initiated")
            /\ initiated' = initiated
  /\ UNCHANGED <<processing, scan_dirs, outputs>>

\* no check of the directory
DirNotChecked(dir) == TRUE

\* resolve(strict=True) finds the directory and os.listdir is not empty
DirValid(dir) == dir.exists /\ dir.entries # {}

\* validate the UNPROCESSED_SCANS_DIR/{barcode} directory
ValidateDir(r) ==
  /\ run[r].pc = "validate_dir"
  /\ LET dir == unprocessed[run[r].barcode]
     IN  IF DirValid(dir)
         THEN /\ run' = [run EXCEPT ![r] = Goto(@, "scan")]
              /\ problem' = problem
         ELSE WithProblemMarker(r, "validate_dir")
  /\ UNCHANGED <<initiated, processing, scan_dirs, outputs>>

\* the os.scandir loop that fills tiff_paths and sequence; it has no handler
Scan(r) ==
  /\ run[r].pc = "scan"
  /\ LET dir == unprocessed[run[r].barcode]
     IN  IF ~dir.exists
         THEN WithoutHandler(r, "scan")
         ELSE \E order \in Perms(dir.entries) :
                LET st == ScanLoop(run[r].variant, ScanStart, order, SubDirs,
                                   run[r].barcode)
                IN  IF st.raised
                    THEN /\ run' = [run EXCEPT ![r] =
                                      [Raised(@, "scan", FALSE) EXCEPT
                                         !.listing = dir.entries]]
                         /\ problem' = problem
                    ELSE /\ run' = [run EXCEPT ![r] =
                                      [@ EXCEPT !.listing = dir.entries,
                                                !.tiff_paths = st.tiff_paths,
                                                !.sequence = st.sequence,
                                                !.i = IF run[r].variant = "prep"
                                                      THEN st.i ELSE <<>>,
                                                !.pc = "check_tiffs"]]
                         /\ problem' = problem
  /\ UNCHANGED <<initiated, processing, scan_dirs, outputs>>

\* a list that is never taken for empty
NeverEmpty(tiff_paths) == FALSE

\* if not len(tiff_paths)
NoTiffs(tiff_paths) == Len(tiff_paths) = 0

\* verify that TIFFs exist in the directory
CheckTiffs(r) ==
  /\ run[r].pc = "check_tiffs"
  /\ IF NoTiffs(run[r].tiff_paths)
     THEN WithProblemMarker(r, "check_tiffs")
     ELSE /\ run' = [run EXCEPT ![r] = Goto(@, "check_gaps")]
          /\ problem' = problem
  /\ UNCHANGED <<initiated, processing, scan_dirs, outputs>>

\* raise an exception if the sequence is missing any numbers
CheckGaps(r) ==
  /\ run[r].pc = "check_gaps"
  /\ LET missing == missing_numbers(run[r].sequence)
         sorted == SortedInPlace(run[r].sequence)
     IN  IF missing # <<>>
         THEN /\ run' = [run EXCEPT ![r] =
                           [Raised(@, "check_gaps", TRUE) EXCEPT
                              !.sequence = sorted, !.missing = missing]]
              /\ problem' = problem \cup {run[r].barcode}
         ELSE /\ run' = [run EXCEPT ![r] =
                           [@ EXCEPT !.sequence = sorted, !.pc = "metadata"]]
              /\ problem' = problem
  /\ UNCHANGED <<initiated, processing, scan_dirs, outputs>>

\* retrieve the item metadata from the catalog, then set the label and the
\* metadata of the manifest
Metadata(r) ==
  /\ run[r].pc = "metadata"
  /\ \E fetched \in BOOLEAN :
       LET m == ReadMetadata(run[r].variant, catalog[run[r].barcode], fetched)
       IN  IF m.error = "none"
           THEN /\ run' = [run EXCEPT ![r] =
                             [@ EXCEPT !.meta = m,
                                       !.label = ManifestLabel(m),
                                       !.metadata = ManifestMetadata(run[r].variant, m),
                                       !.pc = "makedirs"]]
                /\ problem' = problem
           ELSE /\ run' = [run EXCEPT ![r] =
                             [Raised(@, "metadata", TRUE) EXCEPT !.meta = m]]
                /\ problem' = problem \cup {run[r].barcode}
  /\ UNCHANGED <<initiated, processing, scan_dirs, outputs>>

\* os.makedirs(PROCESSED_IIIF_DIR/{barcode}, exist_ok=True), then tiff_paths.sort()
MakeDirs(r) ==
  /\ run[r].pc = "makedirs"
  /\ \E ok \in BOOLEAN :
       IF ok
       THEN /\ iiif_dir' = [iiif_dir EXCEPT ![run[r].barcode].exists = TRUE]
            /\ run' = [run EXCEPT ![r] =
                         [@ EXCEPT !.tiff_paths = SortStr(@), !.n = 1,
                                   !.pc = "convert"]]
            /\ problem' = problem
       ELSE /\ WithProblemMarker(r, "makedirs")
            /\ iiif_dir' = iiif_dir
  /\ UNCHANGED <<initiated, processing, scan_dirs, s3, manifest_files, catalog>>

\* the pages this run has put into the bucket
Uploaded(rr) == {f \in rr.converted : <<f, "ok">> \in rr.outcomes}

\* the exit status after a failed vips call: dibsiiif.py raises RuntimeError,
\* dibsprep.py calls sys.exit() without argument
ConvertFailureExit(variant) == IF variant = "iiif" THEN 1 ELSE 0

\* a page loop that passes over the page whose conversion failed
ConvertFailureSkipsPage(rr) ==
  [rr EXCEPT !.stage = "convert", !.n = @ + 1,
             !.pc = IF rr.n = Len(rr.tiff_paths) THEN "manifest" ELSE "convert"]

\* os.system(...) != 0: the process ends inside the loop, without handler
ConvertFailed(rr) ==
  [rr EXCEPT !.pc = "done", !.stage = "convert",
             !.exit = ConvertFailureExit(rr.variant)]

\* os.system(vips tiffsave ...) for the page tiff_paths[n]
Convert(r) ==
  /\ run[r].pc = "convert"
  /\ LET f == run[r].tiff_paths[run[r].n]
     IN  \E ok \in BOOLEAN :
           IF ok
           THEN /\ iiif_dir' = [iiif_dir EXCEPT ![run[r].barcode].entries =
                                  @ \cup {PageNum(f)}]
                /\ run' = [run EXCEPT ![r] =
                             [@ EXCEPT !.converted = @ \cup {f}, !.pc = "upload"]]
           ELSE /\ iiif_dir' = iiif_dir
                /\ run' = [run EXCEPT ![r] = ConvertFailed(@)]
  /\ UNCHANGED <<status_files, scan_dirs, s3, manifest_files, catalog>>

\* the outcomes of put_object
UploadOutcomes == {"ok", "InternalError", "OtherError"}

\* an except clause that swallows every ClientError
SwallowsEveryError(outcome) == outcome # "ok"

\* no put_object error is swallowed
SwallowsNothing(outcome) == FALSE

\* the except clause: only the error code InternalError is swallowed
Swallowed(outcome) == outcome = "InternalError"

\* put_object for the page tiff_paths[n], then the canvas is appended
Upload(r) ==
  /\ run[r].pc = "upload"
  /\ LET f == run[r].tiff_paths[run[r].n]
     IN  \E outcome \in UploadOutcomes :
           IF outcome = "ok" \/ Swallowed(outcome)
           THEN /\ s3' = IF outcome = "ok"
                         THEN s3 \cup {<<run[r].barcode, PageNum(f)>>}
                         ELSE s3
                /\ run' = [run EXCEPT ![r] =
                             [@ EXCEPT !.outcomes = @ \cup {<<f, outcome>>},
                                       !.canvases = Append(@, PageNum(f)),
                                       !.n = @ + 1,
                                       !.pc = IF run[r].n = Len(run[r].tiff_paths)
                                              THEN "manifest" ELSE "convert"]]
           ELSE /\ s3' = s3
                /\ run' = [run EXCEPT ![r] =
                             [Raised(@, "upload", FALSE) EXCEPT
                                !.outcomes = @ \cup {<<f, outcome>>}]]
  /\ UNCHANGED <<status_files, scan_dirs, iiif_dir, manifest_files, catalog>>

\* save {barcode}-manifest.json; the open/write has no handler
WriteManifest(r) ==
  /\ run[r].pc = "manifest"
  /\ \E ok \in BOOLEAN :
       IF ok
       THEN /\ manifest_files' =
                 [manifest_files EXCEPT ![run[r].variant][run[r].barcode] =
                    [ written |-> TRUE, label |-> run[r].label,
                      metadata |-> run[r].metadata,
                      canvases |-> run[r].canvases ]]
            /\ run' = [run EXCEPT ![r] =
                         [@ EXCEPT !.manifest_written = TRUE, !.pc = "move"]]
       ELSE /\ manifest_files' = manifest_files
            /\ run' = [run EXCEPT ![r] = Raised(@, "manifest", FALSE)]
  /\ UNCHANGED <<status_files, scan_dirs, iiif_dir, s3, catalog>>

\* dibsiiif.py: shutil.move(str(barcode_dir), str(PROCESSED_SCANS_DIR))
MoveItemDir(r) ==
  /\ run[r].pc = "move"
  /\ run[r].variant = "iiif"
  /\ LET b == run[r].barcode
     IN  \E ok \in BOOLEAN :
           IF ok /\ unprocessed[b].exists /\ ~processed[b].exists
           THEN /\ processed' = [processed EXCEPT ![b] = unprocessed[b]]
                /\ unprocessed' = [unprocessed EXCEPT ![b] = NoDir]
                /\ run' = [run EXCEPT ![r] =
                             [@ EXCEPT !.moved = "item directory",
                                       !.pc = "cleanup"]]
                /\ problem' = problem
           ELSE /\ WithProblemMarker(r, "move")
                /\ UNCHANGED <<processed, unprocessed>>
  /\ UNCHANGED <<initiated, processing, stray, outputs>>

\* dibsprep.py: shutil.move(i, PROCESSED_SCANS_DIR) with i the last entry of
\* the scandir loop; it has no handler and is the last statement of main
MoveLastEntry(r) ==
  /\ run[r].pc = "move"
  /\ run[r].variant = "prep"
  /\ LET b == run[r].barcode
         i == run[r].i
     IN  \E ok \in BOOLEAN :
           IF ok /\ i \in unprocessed[b].entries /\ i \notin stray
           THEN /\ unprocessed' = [unprocessed EXCEPT ![b].entries = @ \ {i}]
                /\ stray' = stray \cup {i}
                /\ run' = [run EXCEPT ![r] =
                             [@ EXCEPT !.moved = "last entry", !.pc = "done",
                                       !.exit = 0]]
           ELSE /\ UNCHANGED <<unprocessed, stray>>
                /\ run' = [run EXCEPT ![r] = Raised(@, "move", FALSE)]
  /\ UNCHANGED <<status_files, processed, outputs>>

\* dibsiiif.py: remove STATUS_FILES_DIR/{barcode}-processing with unlink()
RemoveProcessing(r) ==
  /\ run[r].pc = "cleanup"
  /\ \E ok \in BOOLEAN :
       IF ok /\ run[r].barcode \in processing
       THEN /\ processing' = processing \ {run[r].barcode}
            /\ run' = [run EXCEPT ![r] = [@ EXCEPT !.pc = "done", !.exit = 0]]
            /\ problem' = problem
       ELSE /\ WithProblemMarker(r, "cleanup")
            /\ processing' = processing
  /\ UNCHANGED <<initiated, scan_dirs, outputs>>

\* one step of the invocation r
Step(r) ==
  \/ ValidateSettings(r)
  \/ CreateProcessing(r)
  \/ RemoveInitiated(r)
  \/ ValidateDir(r)
  \/ Scan(r)
  \/ CheckTiffs(r)
  \/ CheckGaps(r)
  \/ Metadata(r)
  \/ MakeDirs(r)
  \/ Convert(r)
  \/ Upload(r)
  \/ WriteManifest(r)
  \/ MoveItemDir(r)
  \/ MoveLastEntry(r)
  \/ RemoveProcessing(r)

\* invocations of both variants for both barcodes, interleaved
Next == \E r \in Runs : Invoke(r, Barcodes) \/ Step(r)

Spec == Init /\ [][Next]_vars

\* one invocation over a directory filled from the catalogue
NextSeq == Invoke(1, {BarcodeA}) \/ Step(1)

SpecSeq == InitSeq /\ [][NextSeq]_vars

\* one invocation with each of the catalog records
SpecMeta == InitMeta /\ [][NextSeq]_vars

(***************************************************************************)
(* Properties                                                              *)
(***************************************************************************)
Terminated(r) == run[r].pc = "done"
Failed(r) == Terminated(r) /\ run[r].stage # "none"
Succeeded(r) == Terminated(r) /\ run[r].stage = "none"

\* the stages after the creation of the processing marker, directory
\* validation through marker cleanup
LaterStages ==
  {"validate_dir", "scan", "check_tiffs", "check_gaps", "metadata", "makedirs",
   "convert", "upload", "manifest", "move", "cleanup"}

\* the run has created the processing marker and has not terminated
Holding(r) == run[r].created /\ ~Terminated(r)

\* the run has converted or uploaded a page or written a manifest
Produced(r) ==
  \/ run[r].converted # {}
  \/ run[r].outcomes # {}
  \/ run[r].manifest_written

\* C1: of the invocations for one barcode at most one has created the
\* {barcode}-processing marker and is still running; a run is in its later
\* stages only when it created the marker, which then exists; and a run that
\* did not create the marker (it aborted at or before marker creation) has
\* converted nothing, uploaded nothing and written no manifest.
C1_MarkerMutualExclusion ==
  /\ \A r1, r2 \in Runs :
       (r1 # r2 /\ run[r1].barcode = run[r2].barcode)
         => ~(Holding(r1) /\ Holding(r2))
  /\ \A r \in Runs :
       run[r].pc \in LaterStages
         => run[r].created /\ run[r].barcode \in processing
  /\ \A r \in Runs : ~run[r].created => ~Produced(r)
  /\ \A r1, r2 \in Runs :
       (Holding(r1) /\ run[r2].barcode = run[r1].barcode /\ r1 # r2
          /\ Terminated(r2) /\ run[r2].stage = "processing")
         => ~run[r2].created /\ ~Produced(r2)

\* one run is in its page loop while another run for the same barcode has
\* aborted at marker creation
C1_Witness ==
  \E r1, r2 \in Runs :
    /\ r1 # r2
    /\ run[r1].barcode = run[r2].barcode
    /\ Holding(r1)
    /\ run[r1].pc = "upload"
    /\ Failed(r2)
    /\ run[r2].stage = "processing"

\* C2: every dibsiiif.py run that fails in a stage after settings validation
\* has written the {barcode}-problem marker when it terminates.
C2_FailureWritesProblemMarker ==
  \A r \in Runs :
    (run[r].variant = "iiif" /\ Failed(r) /\ run[r].stage # "settings")
      => run[r].wrote_problem

\* C3: when a dibsiiif.py run that created the processing marker terminates,
\* the processing marker is absent, and after a failure the problem marker is
\* present.
C3_ProcessingReplacedByProblem ==
  [][\A r \in Runs :
       (/\ run[r].variant = "iiif"
        /\ run[r].created
        /\ ~Terminated(r)
        /\ run'[r].pc = "done")
         => /\ run[r].barcode \notin processing'
            /\ run'[r].stage # "none" => run[r].barcode \in problem']_vars

\* C4: a run of either variant that terminates without a failed stage leaves
\* the item directory absent from the unprocessed location and the processing
\* marker absent.
C4_SuccessRelocatesAndUnlocks ==
  [][\A r \in Runs :
       (~Terminated(r) /\ run'[r].pc = "done" /\ run'[r].stage = "none")
         => /\ ~unprocessed'[run[r].barcode].exists
            /\ run[r].barcode \notin processing']_vars

\* the run has moved the item directory or a part of it, or has removed the
\* processing marker
Relocated(r) ==
  \/ run[r].moved # "nothing"
  \/ run[r].variant = "iiif" /\ Succeeded(r)

\* C5 as stated: the directory is moved and the marker removed only when every
\* accepted page was converted and successfully uploaded by this run and the
\* manifest was written.
C5_MovedOnlyAfterAllUploaded ==
  \A r \in Runs :
    Relocated(r)
      => /\ run[r].manifest_written
         /\ \A k \in 1..Len(run[r].tiff_paths) :
              /\ run[r].tiff_paths[k] \in run[r].converted
              /\ run[r].tiff_paths[k] \in Uploaded(run[r])

\* C5 as amended: the directory is moved and the marker removed only when
\* every accepted page was converted and its upload either succeeded or failed
\* with the error code InternalError, and the manifest was written.
C5_MovedOnlyAfterAllAttempted ==
  \A r \in Runs :
    Relocated(r)
      => /\ run[r].manifest_written
         /\ Len(run[r].canvases) = Len(run[r].tiff_paths)
         /\ \A k \in 1..Len(run[r].tiff_paths) :
              /\ run[r].tiff_paths[k] \in run[r].converted
              /\ \/ <<run[r].tiff_paths[k], "ok">> \in run[r].outcomes
                 \/ <<run[r].tiff_paths[k], "InternalError">> \in run[r].outcomes
              /\ <<run[r].tiff_paths[k], "OtherError">> \notin run[r].outcomes

\* a run has moved the item directory although the upload of one of its two
\* pages failed with InternalError
C5_Witness ==
  \E r \in Runs :
    /\ run[r].moved = "item directory"
    /\ Len(run[r].tiff_paths) = 2
    /\ \E k \in 1..2 : <<run[r].tiff_paths[k], "InternalError">> \in run[r].outcomes
    /\ \E k \in 1..2 : <<run[r].tiff_paths[k], "ok">> \in run[r].outcomes

\* C6: no failed dibsiiif.py run has relocated the item directory.
C6_FailureLeavesDirectory ==
  \A r \in Runs :
    (run[r].variant = "iiif" /\ Failed(r))
      => /\ run[r].moved = "nothing"
         /\ run[r].listing # {}
              => unprocessed[run[r].barcode] = DirOf(run[r].listing)

\* C7: in both variants a run in which a stage failed terminates with a
\* non-zero exit status.
C7_FailureExitsNonZero ==
  \A r \in Runs : Failed(r) => run[r].exit # 0

\* the numbers of a list, its smallest and its largest
Elems(l) == {l[k] : k \in 1..Len(l)}
MinOf(S) == CHOOSE x \in S : \A y \in S : x <= y
MaxOf(S) == CHOOSE x \in S : \A y \in S : x >= y

\* the integers of [min(S), max(S)] that are absent from S
Absent(S) == {x \in MinOf(S)..MaxOf(S) : x \notin S}

\* the list is strictly ascending
Ascending(l) == \A j, k \in 1..Len(l) : j < k => l[j] < l[k]

\* the run has gone through the gap check
GapChecked(r) ==
  \/ run[r].pc \in {"metadata", "makedirs", "convert", "upload", "manifest",
                    "move", "cleanup"}
  \/ Terminated(r) /\ run[r].stage \in {"check_gaps", "metadata", "makedirs",
                                        "convert", "upload", "manifest", "move",
                                        "cleanup", "none"}

\* C8: for every non-empty list S of sequence numbers the gap check fails the
\* run exactly when an integer of [min(S), max(S)] is absent from S; the
\* reported missing list is then exactly these integers in ascending order;
\* otherwise sequencing succeeds and keeps one page entry per number of S.
C8_GapCheck ==
  \A r \in Runs :
    GapChecked(r)
      => LET S == Elems(run[r].sequence)
         IN  /\ S # {}
             /\ (Failed(r) /\ run[r].stage = "check_gaps") <=> (Absent(S) # {})
             /\ (Failed(r) /\ run[r].stage = "check_gaps")
                  => /\ Elems(run[r].missing) = Absent(S)
                     /\ Ascending(run[r].missing)
             /\ Absent(S) = {}
                  => /\ run[r].missing = <<>>
                     /\ Len(run[r].tiff_paths) = Len(run[r].sequence)

\* a run has failed the gap check and reports the two missing numbers of a
\* directory with the pages 1 and the barcode-only name (7)
C8_Witness ==
  \E r \in Runs :
    /\ Failed(r)
    /\ run[r].stage = "check_gaps"
    /\ Elems(run[r].sequence) = {1, 3, 7}
    /\ run[r].missing = <<2, 4, 5, 6>>

\* the part of the name before its first "." cut at the underscores
Pieces(name) == Split(Split(name, ".")[1], "_")
NonEmpty(x) == x # <<>>
IsDigits(x) == x # <<>> /\ \A k \in 1..Len(x) : x[k] \in Digits

\* the name follows one of the two conventions: the two parts {barcode}, N
\* or the three parts {barcode}, "Page", N
Conventional(name, barcode) ==
  LET p == Pieces(name)
  IN  \/ Len(p) = 2 /\ p[1] = barcode /\ IsDigits(p[2])
      \/ Len(p) = 3 /\ p[1] = barcode /\ p[2] = Page /\ IsDigits(p[3])

\* the name has the barcode as its first and a number as its last non-empty
\* part
Recognised(name, barcode) ==
  LET p == SelectSeq(Pieces(name), NonEmpty)
  IN  p # <<>> /\ p[1] = barcode /\ IsDigits(p[Len(p)])

\* the entry is a file with one of the two extensions
IsImageFile(name) ==
  /\ name \notin SubDirs
  /\ \/ Len(name) >= 4 /\ SubSeq(name, Len(name) - 3, Len(name)) = Tif
     \/ Len(name) >= 5 /\ SubSeq(name, Len(name) - 4, Len(name)) = Tiff

\* the run has listed the directory; the scandir loop has ended normally
Scanned(r) == run[r].listing # {}
ScanCompleted(r) == Scanned(r) /\ ~(Failed(r) /\ run[r].stage = "scan")
Accepted(r) == Elems(run[r].tiff_paths)

\* C9: a dibsiiif.py run over a directory with at least one valid file name
\* leaves every file with an unrecognised name out of the sequence and goes on
\* to the sequencing checks: such a name alone never aborts the run.
C9_UnrecognisedNameSkipped ==
  \A r \in Runs :
    (/\ run[r].variant = "iiif"
     /\ Scanned(r)
     /\ \E name \in run[r].listing :
          IsImageFile(name) /\ Conventional(name, run[r].barcode))
      => /\ ScanCompleted(r)
         /\ \A name \in run[r].listing :
              ~Recognised(name, run[r].barcode) => name \notin Accepted(r)

SequencingSucceeded(r) ==
  GapChecked(r) /\ ~(Failed(r) /\ run[r].stage = "check_gaps")

\* C11: whenever sequencing succeeds, the sequence numbers of the accepted
\* pages are pairwise distinct: two accepted files never carry the same
\* number.
C11_SequenceNumbersDistinct ==
  \A r \in Runs :
    SequencingSucceeded(r)
      => \A j, k \in 1..Len(run[r].sequence) :
           j # k => run[r].sequence[j] # run[r].sequence[k]

\* the sequence number of an accepted name: its last non-empty part, read as
\* a number
SequenceNumber(name) ==
  LET p == SelectSeq(Pieces(name), NonEmpty)
  IN  IntOf(p[Len(p)])

\* C12: a written manifest holds exactly one canvas per accepted page, and the
\* canvases follow the ascending numeric order of the pages' sequence numbers.
C12_CanvasPerPageInNumericOrder ==
  \A r \in Runs :
    run[r].manifest_written
      => LET m == manifest_files[run[r].variant][run[r].barcode]
             pages == run[r].tiff_paths
         IN  /\ m.written
             /\ Len(m.canvases) = Len(pages)
             /\ Elems(pages) = {f \in run[r].listing : f \in Accepted(r)}
             /\ \A k \in 1..Len(pages) : m.canvases[k] = PageNum(pages[k])
             /\ \A j, k \in 1..Len(pages) :
                  j < k => SequenceNumber(pages[j]) <= SequenceNumber(pages[k])

\* the metadata stage of the run has ended, in success or in failure
MetadataDone(r) ==
  \/ run[r].pc \in {"makedirs", "convert", "upload", "manifest", "move",
                    "cleanup"}
  \/ Terminated(r) /\ run[r].stage \in {"metadata", "makedirs", "convert",
                                        "upload", "manifest", "move",
                                        "cleanup", "none"}

\* the FOLIO fields with tag 245, and whether one of them has a subfield $a
Fields245(fields) == {k \in 1..Len(fields) : fields[k].tag = "245"}
HasSubfieldA(fields) ==
  \E k \in Fields245(fields) : Contains(fields[k].content, <<"$", "a">>)

\* C13: when the record of the barcode has no field 245, or a field 245
\* without subfield $a, a dibsiiif.py run fails in the metadata stage before
\* any page is converted, and no dibsiiif.py manifest has an empty title.
C13_MissingTitleAborts ==
  /\ \A r \in Runs :
       (/\ run[r].variant = "iiif"
        /\ MetadataDone(r)
        /\ ~HasSubfieldA(catalog[run[r].barcode].folio))
         => /\ Failed(r)
            /\ run[r].stage = "metadata"
            /\ ~Produced(r)
  /\ \A b \in Barcodes :
       manifest_files["iiif"][b].written
         => /\ manifest_files["iiif"][b].label # <<>>
            /\ manifest_files["iiif"][b].metadata[1].value # <<>>

\* the metadata stage of the run has ended without exception
MetadataRead(r) ==
  MetadataDone(r) /\ ~(Failed(r) /\ run[r].stage = "metadata")

\* the place of an entry in the fixed order of the metadata list
Rank(label) ==
  CASE label = "Title" -> 1
    [] label = "Author" -> 2
    [] label = "Edition" -> 3
    [] label = "Year" -> 4

\* the values of the entries of the list L that carry the label
ValuesOf(L, label) == {L[k].value : k \in {j \in 1..Len(L) : L[j].label = label}}

\* C14: the metadata list of the manifest is, in this order, a Title entry
\* (always), an Author entry exactly when the extracted author is non-empty,
\* an Edition entry exactly when the extracted edition is non-empty, and a
\* Year entry (always, its value possibly empty): it has 2, 3 or 4 entries,
\* Title first and Year last; the written manifest carries this list.
C14_MetadataOrder ==
  \A r \in Runs :
    MetadataRead(r)
      => LET L == run[r].metadata
             m == run[r].meta
         IN  /\ Len(L) \in {2, 3, 4}
             /\ \A k \in 1..Len(L) :
                  L[k].label \in {"Title", "Author", "Edition", "Year"}
             /\ \A j, k \in 1..Len(L) :
                  j < k => Rank(L[j].label) < Rank(L[k].label)
             /\ L[1].label = "Title"
             /\ L[Len(L)] = [label |-> "Year", value |-> m.year]
             /\ ValuesOf(L, "Author") = IF m.author # <<>> THEN {m.author} ELSE {}
             /\ ValuesOf(L, "Edition") = IF m.edition # <<>> THEN {m.edition} ELSE {}
             /\ run[r].manifest_written
                  => manifest_files[run[r].variant][run[r].barcode].metadata = L

\* a manifest is written whose list is Title, Author, Year: the record has an
\* author, no edition and no year
C14_Witness ==
  \E r \in Runs :
    /\ run[r].manifest_written
    /\ MetadataRead(r)
    /\ LET L == manifest_files[run[r].variant][run[r].barcode].metadata
       IN  /\ Len(L) = 3
           /\ L[2] = [label |-> "Author", value |-> AuthorName]
           /\ L[3] = [label |-> "Year", value |-> <<>>]
    /\ run[r].meta.edition = <<>>

\* C15: in each variant the label of a written manifest is the title with
\* the subtitle appended when the 245 field has a subfield b, so that the
\* label equals the value of the Title entry of the metadata list.
C15_LabelIsTitleEntry ==
  \A v \in Variants, b \in Barcodes :
    manifest_files[v][b].written
      => /\ manifest_files[v][b].metadata[1].label = "Title"
         /\ manifest_files[v][b].label = manifest_files[v][b].metadata[1].value

\* the 245 content "$a T / $b S / $c A"
Shape245(T, S, A) ==
  SubA \o T \o <<" ", "/", " ">> \o SubB \o S \o <<" ", "/", " ">> \o SubC \o A

\* C16: dibsiiif.py reads from a 245 field "$a T / $b S / $c A" the title
\* T followed by ": " followed by S, and the author A; from
\* "$a Main Title / $b A Subtitle / $c Author Name" the title
\* "Main Title: A Subtitle".
C16_SubtitleJoinedWithColon ==
  \A r \in Runs :
    (/\ run[r].variant = "iiif"
     /\ MetadataRead(r)
     /\ LET fields == catalog[run[r].barcode].folio
        IN  \E k \in 1..Len(fields) :
              /\ fields[k].tag = "245"
              /\ fields[k].content = Shape245(MainTitle, ASubtitle, AuthorName))
      => /\ run[r].meta.title = MainTitle \o <<":", " ">> \o ASubtitle
         /\ run[r].meta.author = AuthorName

\* the record the variant reads has an 008 field
Has008(variant, rec) ==
  IF variant = "iiif"
  THEN \E k \in 1..Len(rec.folio) : rec.folio[k].tag = "008"
  ELSE \E k \in 1..Len(rec.tind) : rec.tind[k].tag = "008"

\* the failures of the metadata stage that have another cause than the 008
\* field: a failed request, an empty record, a missing title
OtherMetadataErrors ==
  {"request failed", "no fields found", "no title found", "title tag was empty"}

\* C17: in each variant, when the record has no 008 field the metadata stage
\* does not fail for it: the year is the empty string and the metadata list
\* ends with a Year entry of empty value.
C17_Missing008GivesEmptyYear ==
  \A r \in Runs :
    (/\ MetadataDone(r)
     /\ ~Has008(run[r].variant, catalog[run[r].barcode])
     /\ run[r].meta.error \notin OtherMetadataErrors)
      => /\ MetadataRead(r)
         /\ run[r].meta.year = <<>>
         /\ run[r].metadata[Len(run[r].metadata)] = [label |-> "Year", value |-> <<>>]

\* the stages that follow the validation of the directory
AfterValidation ==
  {"scan", "check_tiffs", "check_gaps", "metadata", "makedirs", "convert",
   "upload", "manifest", "move", "cleanup"}

\* C18: a dibsiiif.py invocation for a barcode whose item is done (directory
\* moved away, processing marker removed) never gets past the validation of
\* the directory: it ends in failure, at the latest in that stage, where the
\* problem marker is written, and it converts nothing, uploads nothing and
\* writes no manifest.
C18_RerunFailsAtValidation ==
  \A r \in Runs :
    (run[r].variant = "iiif" /\ run[r].item_done)
      => /\ run[r].pc \notin AfterValidation
         /\ ~Produced(r)
         /\ run[r].meta = NoMeta
         /\ Terminated(r)
              => /\ Failed(r)
                 /\ run[r].stage \in {"settings", "processing", "initiated",
                                      "validate_dir"}
                 /\ run[r].stage = "validate_dir" => run[r].wrote_problem

\* after a dibsiiif.py run has succeeded, a second dibsiiif.py invocation for
\* the same barcode has failed at the validation of the directory
C18_Witness ==
  \E r1, r2 \in Runs :
    /\ r1 # r2
    /\ run[r1].variant = "iiif"
    /\ Succeeded(r1)
    /\ run[r1].moved = "item directory"
    /\ run[r2].variant = "iiif"
    /\ run[r2].barcode = run[r1].barcode
    /\ run[r2].item_done
    /\ Failed(r2)
    /\ run[r2].stage = "validate_dir"
    /\ run[r2].barcode \in problem

\* the entry passes the extension filter and the name filter of the variant
Passes(variant, name, barcode) ==
  /\ IsImageFile(name)
  /\ IF variant = "iiif"
     THEN Recognised(name, barcode)
     ELSE Conventional(name, barcode)

\* the item directory of the run, which the run has not touched, is empty or
\* holds no entry that passes the filters
NothingToSequence(r) ==
  /\ run[r].pc # "idle"
  /\ run[r].moved = "nothing"
  /\ unprocessed[run[r].barcode].exists
  /\ \A name \in unprocessed[run[r].barcode].entries :
       ~Passes(run[r].variant, name, run[r].barcode)

\* C19: a run over an item directory that is empty, or that holds no file
\* passing the extension and name filters, ends in failure no later than the
\* check for TIFFs: it never reaches the gap check, fetches no metadata, and
\* converts and uploads nothing.
C19_NothingToSequenceFails ==
  \A r \in Runs :
    NothingToSequence(r)
      => /\ run[r].pc \notin {"check_gaps", "metadata", "makedirs", "convert",
                              "upload", "manifest", "move", "cleanup"}
         /\ run[r].meta = NoMeta
         /\ ~Produced(r)
         /\ Terminated(r)
              => /\ Failed(r)
                 /\ run[r].stage \in {"settings", "processing", "initiated",
                                      "validate_dir", "scan", "check_tiffs"}
         /\ (Terminated(r) /\ unprocessed[run[r].barcode].entries = {})
              => run[r].stage \notin {"scan", "check_tiffs"}

\* a run over a directory that holds a sub-directory, a text file and a file
\* with an unrecognised name has failed at the check for TIFFs
C19_Witness ==
  \E r \in Runs :
    /\ NothingToSequence(r)
    /\ run[r].listing =
         { <<"s", "u", "b">>,
           run[r].barcode \o Us \o <<"1">> \o Txt,
           run[r].barcode \o Us \o <<"x">> \o Tif }
    /\ Failed(r)
    /\ run[r].stage = "check_tiffs"
    /\ run[r].wrote_problem

\* the pages of the run for which put_object ended with the outcome
PagesWith(r, outcome) ==
  {k \in 1..Len(run[r].tiff_paths) :
     <<run[r].tiff_paths[k], outcome>> \in run[r].outcomes}

\* C20: a put_object failure with the code InternalError does not end the
\* run: the canvas of the page is appended and the loop goes on, and a run
\* that ends without failure has written the manifest with one canvas per
\* page; a failure with another code ends the run at that page: no later
\* page is converted or uploaded, its canvas is not appended, no manifest is
\* written and the item directory is not moved.
C20_OnlyInternalErrorSwallowed ==
  \A r \in Runs :
    /\ \A k \in PagesWith(r, "InternalError") :
         /\ k <= Len(run[r].canvases)
         /\ run[r].canvases[k] = PageNum(run[r].tiff_paths[k])
         /\ run[r].n > k
         /\ ~(Failed(r) /\ run[r].stage = "upload" /\ run[r].n = k)
    /\ (Failed(r) /\ run[r].stage = "upload")
         <=> PagesWith(r, "OtherError") # {}
    /\ \A k \in PagesWith(r, "OtherError") :
         /\ Failed(r)
         /\ run[r].n = k
         /\ run[r].converted = {run[r].tiff_paths[j] : j \in 1..k}
         /\ \A j \in 1..Len(run[r].tiff_paths) :
              j > k => \A o \in UploadOutcomes :
                         <<run[r].tiff_paths[j], o>> \notin run[r].outcomes
         /\ Len(run[r].canvases) = k - 1
         /\ ~run[r].manifest_written
         /\ run[r].moved = "nothing"
         /\ unprocessed[run[r].barcode].exists
    /\ Succeeded(r)
         => /\ run[r].manifest_written
            /\ Len(run[r].canvases) = Len(run[r].tiff_paths)

\* a dibsiiif.py run has reached done although the upload of its first page
\* ended with InternalError, while another run ended at the first page on
\* another error code
C20_Witness ==
  \E r1, r2 \in Runs :
    /\ run[r1].variant = "iiif"
    /\ Succeeded(r1)
    /\ 1 \in PagesWith(r1, "InternalError")
    /\ Len(run[r1].canvases) = 2
    /\ run[r1].moved = "item directory"
    /\ Failed(r2)
    /\ PagesWith(r2, "OtherError") = {1}
    /\ Len(run[r2].tiff_paths) = 2

\* the conversion of a page of the run has failed
ConversionFailed(r) == run[r].stage = "convert"

\* C21: when the conversion of a page fails the run ends there: that page is
\* not uploaded, no later page is converted or uploaded, no manifest is
\* written by the run and the item directory is not moved; the run takes no
\* further step, so the conversion is not attempted again.
C21_ConversionFailureAborts ==
  /\ [](\A r \in Runs :
          ConversionFailed(r)
            => /\ Terminated(r)
               /\ run[r].converted = {run[r].tiff_paths[j] : j \in 1..(run[r].n - 1)}
               /\ \A j \in 1..Len(run[r].tiff_paths) :
                    j >= run[r].n
                      => \A o \in UploadOutcomes :
                           <<run[r].tiff_paths[j], o>> \notin run[r].outcomes
               /\ Len(run[r].canvases) = run[r].n - 1
               /\ ~run[r].manifest_written
               /\ run[r].moved = "nothing"
               /\ unprocessed[run[r].barcode].exists)
  /\ [][\A r \in Runs : ConversionFailed(r) => run'[r] = run[r]]_vars

\* the conversion of the second of two pages has failed after the first page
\* was converted and uploaded
C21_Witness ==
  \E r \in Runs :
    /\ ConversionFailed(r)
    /\ Terminated(r)
    /\ run[r].n = 2
    /\ Len(run[r].tiff_paths) = 2
    /\ run[r].converted = {run[r].tiff_paths[1]}
    /\ <<run[r].tiff_paths[1], "ok">> \in run[r].outcomes

\* C22: in each variant the removal of the {barcode}-initiated marker is
\* best-effort: a run that comes to this stage while the marker is absent
\* can go on to the next stage (the absence alone makes it neither fail nor
\* write the problem marker), and a run that goes on leaves no marker.
C22_InitiatedRemovalBestEffort ==
  \A r \in Runs :
    /\ (run[r].pc = "initiated" /\ run[r].barcode \notin initiated)
         => ENABLED (/\ RemoveInitiated(r)
                     /\ ~Terminated(r)'
                     /\ problem' = problem)
    /\ run[r].pc \in LaterStages => run[r].barcode \notin initiated

\* the file-name sequencing of the run has completed successfully: some page
\* is accepted and no number between the smallest and the largest is absent
Sequenced(r) ==
  /\ SequencingSucceeded(r)
  /\ Len(run[r].tiff_paths) > 0
  /\ Len(run[r].sequence) = Len(run[r].tiff_paths)
  /\ Absent(Elems(run[r].sequence)) = {}

\* the metadata extraction of the run has completed successfully
Extracted(r) ==
  /\ MetadataRead(r)
  /\ run[r].meta.error = "none"
  /\ Len(run[r].metadata) >= 2

\* every page of the run has been converted and its upload attempted
LoopFinished(r) ==
  /\ run[r].converted = Elems(run[r].tiff_paths)
  /\ \A f \in Elems(run[r].tiff_paths) :
       \E o \in UploadOutcomes : <<f, o>> \in run[r].outcomes
  /\ Len(run[r].canvases) = Len(run[r].tiff_paths)

\* C23: within one run a page is converted or uploaded only when sequencing
\* and metadata extraction have completed successfully before, and the
\* manifest is written only when the page loop has finished for every page.
C23_StageOrder ==
  /\ [](\A r \in Runs :
          /\ (run[r].pc \in {"convert", "upload"} \/ Produced(r))
               => Sequenced(r) /\ Extracted(r)
          /\ run[r].manifest_written => LoopFinished(r))
  /\ [][\A r \in Runs :
          /\ (run'[r].converted # run[r].converted
                \/ run'[r].outcomes # run[r].outcomes)
               => Sequenced(r) /\ Extracted(r)
          /\ (run'[r].manifest_written /\ ~run[r].manifest_written)
               => LoopFinished(r) /\ run[r].pc = "manifest"]_vars

\* a run has written its manifest after two pages
C23_Witness ==
  \E r \in Runs :
    /\ run[r].manifest_written
    /\ Len(run[r].tiff_paths) = 2
    /\ LoopFinished(r)
    /\ Sequenced(r)
    /\ Extracted(r)

\* what belongs to a barcode: its three markers, its item directory in both
\* places, its directory of converted images, its manifest files and its
\* keys in the bucket
Belongings(b) ==
  << b \in initiated, b \in processing, b \in problem,
     unprocessed[b], processed[b], iiif_dir[b],
     [v \in Variants |-> manifest_files[v][b]],
     {key \in s3 : key[1] = b} >>

\* no other invocation is for the barcode of the run
Isolated(r) ==
  /\ run[r].pc # "idle"
  /\ \A r2 \in Runs : r2 # r => run[r2].barcode # run[r].barcode

\* C24: invocations for different barcodes do not interfere: a step of a run
\* changes nothing that belongs to another barcode, and a run that is the
\* only one for its barcode can, as when it runs alone, create its
\* processing marker, move what it has processed and remove its marker,
\* whatever the runs for other barcodes have done.
C24_BarcodesDoNotInterfere ==
  /\ [](\A r \in Runs :
          (Isolated(r) /\ run[r].pc \in {"processing", "move", "cleanup"})
            => ENABLED (Step(r) /\ ~Failed(r)'))
  /\ [][\A b \in Barcodes :
          Belongings(b)' # Belongings(b)
            => \E r \in Runs : run'[r] # run[r] /\ run'[r].barcode = b]_vars

\* every other invocation for the barcode of the run has aborted at the
\* creation of the processing marker
OthersAbortedAtMarker(r) ==
  \A r2 \in Runs :
    (r2 # r /\ run[r2].barcode = run[r].barcode)
      => Failed(r2) /\ run[r2].stage = "processing"

\* C25: when a dibsiiif.py run that started without {barcode}-problem marker
\* terminates successfully, and every other invocation for its barcode has
\* aborted at the creation of the processing marker, no {barcode}-problem
\* marker exists at its termination.
C25_DoneIsNotProblem ==
  [][\A r \in Runs :
       (/\ run[r].variant = "iiif"
        /\ ~run[r].problem_at_start
        /\ ~Terminated(r)
        /\ Succeeded(r)'
        /\ OthersAbortedAtMarker(r)')
         => run[r].barcode \notin problem']_vars

\* C26: in dibsiiif.py the page number that the page loop derives from the
\* stem of an accepted file, kept in the canvas of the page, is a non-empty
\* string of digits that denotes the sequence number of that file.
C26_PageNumIsSequenceNumber ==
  \A r \in Runs :
    run[r].variant = "iiif"
      => \A k \in 1..Len(run[r].canvases) :
           /\ IsDigits(run[r].canvases[k])
           /\ IntOf(run[r].canvases[k]) = SequenceNumber(run[r].tiff_paths[k])

====
